---- MODULE Spec2Model ----
(***************************************************************************)
(* A model of mojo-results: the result leaf nodes and their finalize       *)
(* rollup, the thread-safe ResultRecorder / JsonResultRecorder, and the    *)
(* ProgressConcentratorServer with its postback handler.                   *)
(*                                                                         *)
(* Four specifications share the module:                                   *)
(*   SpecNode    one leaf node driven by its owning context                *)
(*   Spec        one entered recorder driven by concurrent threads         *)
(*   SpecSeq     one recorder driven by one thread from its construction   *)
(*   SpecServer  one concentrator server: start(), its workers, postbacks  *)
(*   SpecCtor    the construction of one recorder from its arguments       *)
(***************************************************************************)
EXTENDS Integers, Sequences, FiniteSets, TLC

(***************************************************************************)
(* Bounds of the model.                                                    *)
(***************************************************************************)
\* longest errors / failures / warnings list of a leaf
MaxItems == 2
\* last value of the wall clock
MaxTime == 1
\* number of recorder operations invoked over a run of concurrent threads
MaxCalls == 2
\* number of recorder operations invoked over a run of one thread
MaxSeqCalls == 2
\* the configured forwarding interval (ForwardingInfo.forwarding_interval)
ForwardInterval == 2
\* number of postbacks sent to the server
MaxRequests == 2
MaxStarts == 2

(***************************************************************************)
(* Optional values: None is the empty sequence, a value x is <<x>>.        *)
(***************************************************************************)
None == << >>
Some(x) == << x >>

(***************************************************************************)
(* model/resultcode.py, model/resulttype.py, model/progresscode.py         *)
(***************************************************************************)
UNSET == 0
PASSED == 1
SKIPPED == 2
ERRORED == 3
FAILED == 4
CANCELLED == 5
UNKOWN == 6
ResultCode == {UNSET, PASSED, SKIPPED, ERRORED, FAILED, CANCELLED, UNKOWN}

TASK == 4
TEST == 6
TASKING == 10

ProgressCode == {"Completed", "Errored", "Failed", "NotStarted", "Paused", "Running"}

VARIABLES
    \* ---- the wall clock (datetime.now()) ----
    now,
    \* ---- one leaf node (SpecNode) ----
    node,          \* the leaf's fields
    nodeOp,        \* the operation that produced this state
    nodePre,       \* the leaf's fields before that operation
    \* ---- the recorder (Spec) ----
    rout,              \* self._rout: "None", "open" or "closed"
    stream,            \* what has been written to the record stream
    running_tasks,     \* self._running_tasks (aliased by summary["running"])
    error_count, failure_count, pass_count, skip_count, unknown_count, total_count,
    finalized,         \* self._finalized
    summary,           \* the stop / result / detail fields of self._summary
    summary_file,      \* the persisted summary file
    lock,              \* self._lock: its holder, or None
    next_forward_at,   \* self._next_forward_at
    forwarding_info,   \* self._forwarding_info
    recorder_class,    \* the class whose constructor made the recorder
    pc,                \* per thread: where it is in its recorder operation
    frame,             \* per thread: the operation's arguments and locals
    calls,             \* operations invoked so far
    hist,              \* history: what the run has done so far
    \* ---- the concentrator server (SpecServer) ----
    srv,               \* the server's fields, gates and worker positions
    responses,         \* the responses sent to the postbacks, in order
    \* ---- the construction of a recorder (SpecCtor) ----
    ctor               \* the constructor's arguments and what the call gave

nodeVars == << node, nodeOp, nodePre >>
recVars == << rout, stream, running_tasks, error_count, failure_count, pass_count,
              skip_count, unknown_count, total_count, finalized, summary,
              summary_file, lock, next_forward_at, forwarding_info, recorder_class,
              pc, frame, calls, hist >>
\* what the leaf and the recorder leave alone: the server and the constructor
srvVars == << srv, responses, ctor >>
vars == << now, nodeVars, recVars, srvVars >>

(***************************************************************************)
(* The leaf nodes: ResultNode, TestResult, TaskingResult.                  *)
(***************************************************************************)
NodeKinds == {"ResultNode", "TestResult", "TaskingResult"}

\* A TracebackDetail, opaque here.
TracebackDetails == {"tb"}

\* The inputs of add_warning: each line is given as its pieces between line
\* breaks (after rstrip and the CRLF replacement).
WarnLines == { << <<"w">> >>, << <<"a", "b">>, <<"c">> >> }

\* ResultNode.__init__ / TestResult.__init__ / TaskingResult.__init__
NewNode(kind, result_type, result_code) ==
    [ kind |-> kind,
      result_type |-> result_type,
      result_code |-> result_code,
      start |-> 0,
      stop |-> None,
      errors |-> << >>,
      failures |-> << >>,
      warnings |-> << >>,
      reason |-> None,
      bug |-> None,
      docstr |-> None ]

\* the result types a constructor of each kind is given
KindTypes(kind) ==
    IF kind = "TestResult" THEN {TEST}
    ELSE IF kind = "TaskingResult" THEN {TASKING}
    ELSE {TASK}

\* add_warning's trimming: a line holding line breaks is split and its pieces
\* are appended one by one, any other line is appended as it is
RECURSIVE trim_lines(_)
trim_lines(warn_lines) ==
    IF warn_lines = << >> THEN << >>
    ELSE LET nline == Head(warn_lines)
         IN  (IF Len(nline) > 1 THEN nline ELSE << nline[1] >>)
             \o trim_lines(Tail(warn_lines))

add_error(n, trace_detail) == [n EXCEPT !.errors = Append(@, trace_detail)]

add_failure(n, trace_detail) == [n EXCEPT !.failures = Append(@, trace_detail)]

add_warning(n, warn_lines) == [n EXCEPT !.warnings = Append(@, trim_lines(warn_lines))]

mark_passed(n) == [n EXCEPT !.result_code = PASSED]

mark_skip(n, reason, bug) ==
    [n EXCEPT !.reason = Some(reason), !.bug = Some(bug), !.result_code = SKIPPED]

set_documentation(n, docstr) == [n EXCEPT !.docstr = Some(docstr)]

\* A finalize that tests the errors before the failures.
ResultNodeFinalizeCodeErrorsFirst(n) ==
    IF Len(n.errors) > 0 THEN ERRORED
    ELSE IF Len(n.failures) > 0 THEN FAILED
    ELSE IF n.result_code = UNSET \/ n.result_code = PASSED THEN PASSED
    ELSE UNKOWN

\* A finalize that keeps a code that was set to Skipped or Cancelled.
ResultNodeFinalizeCodeKeepsExplicit(n) ==
    IF Len(n.failures) > 0 THEN FAILED
    ELSE IF Len(n.errors) > 0 THEN ERRORED
    ELSE IF n.result_code = UNSET \/ n.result_code = PASSED THEN PASSED
    ELSE n.result_code

\* A finalize that looks at the failures and errors of an Unset leaf only.
ResultNodeFinalizeCodeMarksFirst(n) ==
    IF n.result_code = PASSED THEN PASSED
    ELSE IF n.result_code # UNSET THEN UNKOWN
    ELSE IF Len(n.failures) > 0 THEN FAILED
    ELSE IF Len(n.errors) > 0 THEN ERRORED
    ELSE PASSED

\* ResultNode.finalize: the result code it leaves
ResultNodeFinalizeCode(n) ==
    IF Len(n.failures) > 0 THEN FAILED
    ELSE IF Len(n.errors) > 0 THEN ERRORED
    ELSE IF n.result_code = UNSET \/ n.result_code = PASSED THEN PASSED
    ELSE UNKOWN

\* A finalize of a tasking that takes an Unset code for a pass.
TaskingResultFinalizeCodeUnsetPasses(n) ==
    IF Len(n.failures) > 0 THEN FAILED
    ELSE IF Len(n.errors) > 0 THEN ERRORED
    ELSE IF n.result_code = UNSET THEN PASSED
    ELSE n.result_code

\* TaskingResult.finalize: the result code it leaves
TaskingResultFinalizeCode(n) ==
    IF Len(n.failures) > 0 THEN FAILED
    ELSE IF Len(n.errors) > 0 THEN ERRORED
    ELSE IF n.result_code = UNSET THEN UNKOWN
    ELSE n.result_code

\* finalize() of a leaf at time t
node_finalize(n, t) ==
    [n EXCEPT !.stop = Some(t),
              !.result_code = IF n.kind = "TaskingResult"
                              THEN TaskingResultFinalizeCode(n)
                              ELSE ResultNodeFinalizeCode(n)]

NodeInit ==
    /\ node \in UNION { { NewNode(k, ty, rc) : ty \in KindTypes(k), rc \in ResultCode }
                        : k \in NodeKinds }
    /\ nodeOp = "init"
    /\ nodePre = node

NodeStep(op, n) ==
    /\ node' = n
    /\ nodeOp' = op
    /\ nodePre' = node

NodeAddError ==
    /\ Len(node.errors) < MaxItems
    /\ \E d \in TracebackDetails : NodeStep("add_error", add_error(node, d))
    /\ UNCHANGED << now, recVars, srvVars >>

NodeAddFailure ==
    /\ Len(node.failures) < MaxItems
    /\ \E d \in TracebackDetails : NodeStep("add_failure", add_failure(node, d))
    /\ UNCHANGED << now, recVars, srvVars >>

NodeAddWarning ==
    /\ Len(node.warnings) < MaxItems
    /\ \E w \in WarnLines : NodeStep("add_warning", add_warning(node, w))
    /\ UNCHANGED << now, recVars, srvVars >>

NodeMarkPassed ==
    /\ NodeStep("mark_passed", mark_passed(node))
    /\ UNCHANGED << now, recVars, srvVars >>

NodeMarkSkip ==
    /\ node.kind = "TestResult"
    /\ NodeStep("mark_skip", mark_skip(node, "flaky", "BUG-1"))
    /\ UNCHANGED << now, recVars, srvVars >>

NodeSetDocumentation ==
    /\ node.docstr = None
    /\ NodeStep("set_documentation", set_documentation(node, "doc"))
    /\ UNCHANGED << now, recVars, srvVars >>

NodeFinalize ==
    /\ NodeStep("finalize", node_finalize(node, now))
    /\ UNCHANGED << now, recVars, srvVars >>

Tick ==
    /\ now < MaxTime
    /\ now' = now + 1

NodeTick ==
    /\ Tick
    /\ UNCHANGED << nodeVars, recVars, srvVars >>

NodeNext ==
    \/ NodeAddError
    \/ NodeAddFailure
    \/ NodeAddWarning
    \/ NodeMarkPassed
    \/ NodeMarkSkip
    \/ NodeSetDocumentation
    \/ NodeFinalize
    \/ NodeTick

(***************************************************************************)
(* ProgressInfo (model/progressinfo.py).                                   *)
(***************************************************************************)
TaskIds == {"X", "Y"}

\* The statuses the posted entries carry.
PostedStatus == {"Running", "Completed", "Failed"}

\* an enumeration member and its .name
Member(enum, name) == << enum, name >>
NameOf(member) == member[2]

\* datetime.isoformat()
isoformat(t) == << "iso", t >>

\* the empty dict
EmptyDict == [k \in {} |-> None]

\* ProgressInfo(...) as the workers build it
NewProgressInfo(id, status, when, data) ==
    [ id |-> id,
      category |-> "task",
      moniker |-> "m",
      ptype |-> Member("ProgressType", "NumericRange"),
      range_min |-> "0",
      range_max |-> "9",
      position |-> "1",
      status |-> Member("ProgressCode", status),
      when |-> when,
      data |-> data ]

\* ProgressInfo.as_dict
as_dict(p) ==
    [ id |-> p.id,
      category |-> p.category,
      moniker |-> p.moniker,
      ptype |-> NameOf(p.ptype),
      range_min |-> p.range_min,
      range_max |-> p.range_max,
      position |-> p.position,
      status |-> NameOf(p.status),
      when |-> isoformat(p.when),
      data |-> IF p.data # None THEN p.data[1] ELSE EmptyDict ]

\* the entries a caller may post (the workers stamp them with their own clock)
ProgressInputs ==
    { NewProgressInfo(id, st, 0, None) : id \in TaskIds, st \in PostedStatus }

\* the batches a caller may post: one entry, or two entries about one task
\* or about two (the second entry is about "Y"; the batches whose second
\* entry is about "X" are their mirror images)
Batches ==
    { << a >> : a \in ProgressInputs }
        \cup { << a, b >> : a \in ProgressInputs,
                            b \in { c \in ProgressInputs : c.id = "Y" } }

(***************************************************************************)
(* The recorder: ResultRecorder and JsonResultRecorder.                    *)
(***************************************************************************)
Threads == {"t1", "t2"}

\* a finalized leaf as record() and preview() read it
Result(ty, rc) == [result_type |-> ty, result_code |-> rc]

\* the recorded nodes: tests of every result code, and a node of another
\* type (record() reads the result code of a test only)
Results == { Result(TEST, rc) : rc \in ResultCode } \cup { Result(TASK, PASSED) }

\* the previewed nodes: a test and a node of another type
PreviewResults == { Result(TEST, PASSED), Result(TASK, UNSET) }

\* the frame of a thread that runs no operation
IdleFrame ==
    [ op |-> "none", call |-> 0, result |-> None, is_preview |-> FALSE,
      ex_type |-> None, runs0 |-> 0, counts0 |-> None, finalized0 |-> None,
      progress_list |-> << >>, i |-> 0, table0 |-> None, task_ids |-> {}, tmp |-> 0,
      fwd_summary |-> None, rtnval |-> None, exc |-> None ]

\* copy.deepcopy(self._summary): the summary with its running table
SummarySnapshot ==
    [ stop |-> summary.stop, result |-> summary.result, detail |-> summary.detail,
      running |-> running_tasks ]

\* A dict object with the dict under its "running" key: `fields` are the
\* values under its other keys, and the dict under "running" is either the
\* recorder's own self._running_tasks object (shares_running) or an object
\* of this dict alone, whose items are `running`.
\* self._summary
SelfSummary == [ fields |-> summary, shares_running |-> TRUE, running |-> EmptyDict ]

\* what reading a dict object gives
Contents(d) ==
    [ stop |-> d.fields.stop, result |-> d.fields.result, detail |-> d.fields.detail,
      running |-> IF d.shares_running THEN running_tasks ELSE d.running ]

\* copy.copy(d): a new dict that holds the same objects under its keys.
copy_copy(d) == d

\* copy.deepcopy(d): a new dict that holds copies of the objects under its keys
deepcopy(d) ==
    [ fields |-> d.fields, shares_running |-> FALSE, running |-> Contents(d).running ]

\* json.dump(self._summary, ...) of update_summary
JsonDump(s) == << "json", s >>

\* str(datetime)
str(t) == << "str", t >>

\* A lock whose acquire never waits.
LockAcquirableAlways == TRUE

\* threading.Lock.acquire(): it waits until the lock is free
LockAcquirable == lock = None

\* A release that leaves the lock with its holder.
releaseKept(holder) == Some(holder)

\* threading.Lock.release(): the lock after its holder released it
release(holder) == None

\* A record() that counts no result of another code than the four it names.
categoryNoUnknown(result_code) ==
    IF result_code = PASSED THEN "pass"
    ELSE IF result_code = ERRORED THEN "error"
    ELSE IF result_code = FAILED THEN "failure"
    ELSE IF result_code = SKIPPED THEN "skip"
    ELSE "none"

\* record(): the counter a test's result code increments
category(result_code) ==
    IF result_code = PASSED THEN "pass"
    ELSE IF result_code = ERRORED THEN "error"
    ELSE IF result_code = FAILED THEN "failure"
    ELSE IF result_code = SKIPPED THEN "skip"
    ELSE "unknown"

\* the value of the counter of a category
counter(cat) ==
    CASE cat = "pass" -> pass_count
      [] cat = "error" -> error_count
      [] cat = "failure" -> failure_count
      [] cat = "skip" -> skip_count
      [] cat = "unknown" -> unknown_count
      [] OTHER -> 0

\* A finalize() whose verdict looks at the failures only.
final_resultFailuresOnly(errors, failures) ==
    IF failures > 0 THEN "FAILED" ELSE "PASSED"

\* A finalize() whose verdict fails a run that counted an unknown result.
final_resultCountsUnknown(errors, failures) ==
    IF errors > 0 \/ failures > 0 \/ unknown_count > 0 THEN "FAILED" ELSE "PASSED"

\* finalize(): the verdict of the run
final_result(errors, failures) ==
    IF errors > 0 \/ failures > 0 THEN "FAILED" ELSE "PASSED"

\* the recorders: a JsonResultRecorder, or a recorder of a class that hands
\* a forwarding_info on to ResultRecorder.__init__
RecorderClasses == { "JsonResultRecorder", "ResultRecorder" }

\* A JsonResultRecorder whose constructor hands a forwarding_info on.
init_forwarding_infoHandedOn(class) == { Some([forwarding_interval |-> ForwardInterval]) }

\* the forwarding_info that reaches ResultRecorder.__init__:
\* JsonResultRecorder.__init__ has no such parameter and passes none to
\* super().__init__, whose default is None
init_forwarding_info(class) ==
    IF class = "JsonResultRecorder"
    THEN { None }
    ELSE { Some([forwarding_interval |-> ForwardInterval]) }

\* ResultRecorder.__init__ (the recorder is given forwarding_info or none),
\* and with `entered` the update_summary() and open() of __enter__
RecConstructed(entered) ==
    /\ rout = (IF entered THEN "open" ELSE "None")
    /\ stream = << >>
    /\ running_tasks = EmptyDict
    /\ error_count = 0
    /\ failure_count = 0
    /\ pass_count = 0
    /\ skip_count = 0
    /\ unknown_count = 0
    /\ total_count = 0
    /\ finalized = FALSE
    /\ summary = [ stop |-> None, result |-> "RUNNING", detail |-> None ]
    /\ summary_file = (IF entered THEN Some(JsonDump(SummarySnapshot)) ELSE None)
    /\ lock = None
    /\ next_forward_at = None
    /\ recorder_class \in RecorderClasses
    /\ forwarding_info \in init_forwarding_info(recorder_class)
    /\ pc = [t \in Threads |-> "idle"]
    /\ frame = [t \in Threads |-> IdleFrame]
    /\ calls = 0
    /\ hist = [ test_returned |-> 0, closes |-> 0, snapshots |-> << >>,
                first_final |-> None, returned |-> << >>, fin_runs |-> 0 ]

RecInit == RecConstructed(FALSE)

\* thread t goes to `label`
Goto(t, label) == pc' = [pc EXCEPT ![t] = label]

\* thread t invokes an operation
Invoke(t, bound, label, f) ==
    /\ pc[t] = "idle"
    /\ calls < bound
    /\ calls' = calls + 1
    /\ Goto(t, label)
    /\ frame' = [frame EXCEPT ![t] = [f EXCEPT !.call = calls + 1]]

\* the operation of thread t ends: it returns, or its exception reaches the caller
Leave(t) ==
    /\ Goto(t, "idle")
    /\ frame' = [frame EXCEPT ![t] = IdleFrame]

\* an exception e leaves the operation of thread t
Throw(t, e) ==
    /\ Goto(t, "raised")
    /\ frame' = [frame EXCEPT ![t].exc = Some(e)]

counts == << error_count, failure_count, pass_count, skip_count, unknown_count,
             total_count >>

\* ---- __enter__ ----
\* update_summary() writes the summary file, then the record stream is opened
Enter(t) ==
    /\ pc[t] = "idle"
    /\ rout = "None"
    /\ summary_file' = Some(JsonDump(SummarySnapshot))
    /\ rout' = "open"
    /\ stream' = << >>
    /\ UNCHANGED << now, running_tasks, counts, finalized, summary, lock,
                    next_forward_at, forwarding_info, recorder_class, pc, frame, calls, hist >>
    /\ UNCHANGED << nodeVars, srvVars >>

\* ---- record(result) and preview(result) ----
CallRecord(t, bound, results) ==
    /\ \E r \in results :
          Invoke(t, bound, "write_sep", [IdleFrame EXCEPT !.op = "record", !.result = Some(r)])
    /\ UNCHANGED << now, rout, stream, running_tasks, counts, finalized, summary,
                    summary_file, lock, next_forward_at, forwarding_info, recorder_class, hist >>
    /\ UNCHANGED << nodeVars, srvVars >>

CallPreview(t, bound, results) ==
    /\ \E r \in results :
          Invoke(t, bound, "write_sep",
                 [IdleFrame EXCEPT !.op = "preview", !.is_preview = TRUE, !.result = Some(r)])
    /\ UNCHANGED << now, rout, stream, running_tasks, counts, finalized, summary,
                    summary_file, lock, next_forward_at, forwarding_info, recorder_class, hist >>
    /\ UNCHANGED << nodeVars, srvVars >>

\* A stream whose calls never raise.
write_raisesNever(r) == FALSE

\* a call on self._rout raises when the recorder has no stream yet (None) or
\* the stream has been closed
write_raises(r) == r # "open"

\* the exception of such a call
write_error(r) == IF r = "None" THEN "AttributeError" ELSE "ValueError"

\* self._rout.write(CHAR_RECORD_SEPERATOR)
WriteSep(t) ==
    /\ pc[t] = "write_sep"
    /\ IF ~ write_raises(rout)
       THEN /\ stream' = Append(stream, [kind |-> "sep", by |-> t])
            /\ Goto(t, "write_json")
            /\ UNCHANGED frame
       ELSE /\ Throw(t, write_error(rout))
            /\ UNCHANGED stream
    /\ UNCHANGED << now, rout, running_tasks, counts, finalized, summary,
                    summary_file, lock, next_forward_at, forwarding_info, recorder_class, calls, hist >>
    /\ UNCHANGED << nodeVars, srvVars >>

\* self._rout.write(json_str)
WriteJson(t) ==
    /\ pc[t] = "write_json"
    /\ IF ~ write_raises(rout)
       THEN /\ stream' = Append(stream, [kind |-> "json", by |-> t, is_preview |-> frame[t].is_preview])
            /\ Goto(t, "flush")
            /\ UNCHANGED frame
       ELSE /\ Throw(t, write_error(rout))
            /\ UNCHANGED stream
    /\ UNCHANGED << now, rout, running_tasks, counts, finalized, summary,
                    summary_file, lock, next_forward_at, forwarding_info, recorder_class, calls, hist >>
    /\ UNCHANGED << nodeVars, srvVars >>

\* self._rout.flush()
Flush(t) ==
    /\ pc[t] = "flush"
    /\ IF ~ write_raises(rout)
       THEN /\ Goto(t, IF frame[t].op = "record" THEN "rec_acquire" ELSE "catalog")
            /\ UNCHANGED frame
       ELSE Throw(t, write_error(rout))
    /\ UNCHANGED << now, rout, stream, running_tasks, counts, finalized, summary,
                    summary_file, lock, next_forward_at, forwarding_info, recorder_class, calls, hist >>
    /\ UNCHANGED << nodeVars, srvVars >>

\* A test of the result type that every node passes.
is_testAlways(result) == TRUE

\* result.result_type == ResultType.TEST
is_test(result) == result.result_type = TEST

\* self._lock.acquire(), then the test of the result type
RecAcquire(t) ==
    /\ pc[t] = "rec_acquire"
    /\ LockAcquirable
    /\ lock' = Some(t)
    /\ Goto(t, IF is_test(frame[t].result[1]) THEN "rec_load_total"
               ELSE "rec_release")
    /\ frame' = [frame EXCEPT ![t].counts0 = Some(counts)]
    /\ UNCHANGED << now, rout, stream, running_tasks, counts, finalized, summary,
                    summary_file, next_forward_at, forwarding_info, recorder_class, calls, hist >>
    /\ UNCHANGED << nodeVars, srvVars >>

\* self._total_count += 1: the read
RecLoadTotal(t) ==
    /\ pc[t] = "rec_load_total"
    /\ frame' = [frame EXCEPT ![t].tmp = total_count]
    /\ Goto(t, "rec_store_total")
    /\ UNCHANGED << now, rout, stream, running_tasks, counts, finalized, summary,
                    summary_file, lock, next_forward_at, forwarding_info, recorder_class, calls, hist >>
    /\ UNCHANGED << nodeVars, srvVars >>

\* self._total_count += 1: the write
RecStoreTotal(t) ==
    /\ pc[t] = "rec_store_total"
    /\ total_count' = frame[t].tmp + 1
    /\ Goto(t, "rec_load_cat")
    /\ UNCHANGED << now, rout, stream, running_tasks, error_count, failure_count,
                    pass_count, skip_count, unknown_count, finalized, summary,
                    summary_file, lock, next_forward_at, forwarding_info, recorder_class, frame,
                    calls, hist >>
    /\ UNCHANGED << nodeVars, srvVars >>

\* the counter of the result code += 1: the read
RecLoadCat(t) ==
    /\ pc[t] = "rec_load_cat"
    /\ frame' = [frame EXCEPT ![t].tmp = counter(category(frame[t].result[1].result_code))]
    /\ Goto(t, "rec_store_cat")
    /\ UNCHANGED << now, rout, stream, running_tasks, counts, finalized, summary,
                    summary_file, lock, next_forward_at, forwarding_info, recorder_class, calls, hist >>
    /\ UNCHANGED << nodeVars, srvVars >>

\* the counter of the result code += 1: the write
RecStoreCat(t) ==
    /\ pc[t] = "rec_store_cat"
    /\ LET cat == category(frame[t].result[1].result_code)
           v == frame[t].tmp + 1
       IN  /\ pass_count' = IF cat = "pass" THEN v ELSE pass_count
           /\ error_count' = IF cat = "error" THEN v ELSE error_count
           /\ failure_count' = IF cat = "failure" THEN v ELSE failure_count
           /\ skip_count' = IF cat = "skip" THEN v ELSE skip_count
           /\ unknown_count' = IF cat = "unknown" THEN v ELSE unknown_count
    /\ Goto(t, "rec_release")
    /\ UNCHANGED << now, rout, stream, running_tasks, total_count, finalized, summary,
                    summary_file, lock, next_forward_at, forwarding_info, recorder_class, frame,
                    calls, hist >>
    /\ UNCHANGED << nodeVars, srvVars >>

\* finally: self._lock.release()
RecRelease(t) ==
    /\ pc[t] = "rec_release"
    /\ lock' = release(t)
    /\ Goto(t, "catalog")
    /\ UNCHANGED << now, rout, stream, running_tasks, counts, finalized, summary,
                    summary_file, next_forward_at, forwarding_info, recorder_class, frame, calls, hist >>
    /\ UNCHANGED << nodeVars, srvVars >>

\* self.catalog_output_directory(), and the return of record() or preview()
Catalog(t) ==
    /\ pc[t] = "catalog"
    /\ hist' = [hist EXCEPT !.test_returned =
                   IF frame[t].op = "record" /\ frame[t].result[1].result_type = TEST
                   THEN @ + 1 ELSE @]
    /\ Leave(t)
    /\ UNCHANGED << now, rout, stream, running_tasks, counts, finalized, summary,
                    summary_file, lock, next_forward_at, forwarding_info, recorder_class, calls >>
    /\ UNCHANGED << nodeVars, srvVars >>

\* ---- post_task_progress(progress_list) ----
CallPost(t, bound, batches) ==
    /\ \E batch \in batches :
          Invoke(t, bound, "post_acquire", [IdleFrame EXCEPT !.op = "post", !.progress_list = batch])
    /\ UNCHANGED << now, rout, stream, running_tasks, counts, finalized, summary,
                    summary_file, lock, next_forward_at, forwarding_info, recorder_class, hist >>
    /\ UNCHANGED << nodeVars, srvVars >>

PostAcquire(t) ==
    /\ pc[t] = "post_acquire"
    /\ LockAcquirable
    /\ lock' = Some(t)
    /\ frame' = [frame EXCEPT ![t].i = 1, ![t].table0 = Some(running_tasks)]
    /\ Goto(t, "post_loop")
    /\ UNCHANGED << now, rout, stream, running_tasks, counts, finalized, summary,
                    summary_file, next_forward_at, forwarding_info, recorder_class, calls, hist >>
    /\ UNCHANGED << nodeVars, srvVars >>

\* del d[key]
dict_del(d, key) == [k \in (DOMAIN d) \ {key} |-> d[k]]

\* d[key] = value
dict_set(d, key, value) == [k \in (DOMAIN d) \cup {key} |-> IF k = key THEN value ELSE d[k]]

\* the table the whole loop over progress_list leaves: its turns one after
\* the other, up to the end of the list or to the turn that raises
RECURSIVE post_loop_result(_, _)
post_loop_result(table, progress_list) ==
    IF progress_list = << >> THEN table
    ELSE LET progress == Head(progress_list)
         IN  IF NameOf(progress.status) = "Completed"
             THEN IF progress.id \in DOMAIN table
                  THEN post_loop_result(dict_del(table, progress.id), Tail(progress_list))
                  ELSE table
             ELSE post_loop_result(dict_set(table, progress.id, as_dict(progress)),
                                   Tail(progress_list))

\* A post that puts the table back as it found it when a turn raises.
table_on_exceptionRolledBack(table, table0) == table0

\* the table when a turn of the loop raises: nothing is undone (the finally
\* releases the lock and does nothing else)
table_on_exception(table, table0) == table

\* one turn of the loop over progress_list; del of an absent id raises KeyError
PostLoop(t) ==
    /\ pc[t] = "post_loop"
    /\ frame[t].i <= Len(frame[t].progress_list)
    /\ LET progress == frame[t].progress_list[frame[t].i]
       IN  IF "status" \in DOMAIN progress
           THEN IF NameOf(progress.status) = "Completed"
                THEN IF progress.id \in DOMAIN running_tasks
                     THEN /\ running_tasks' = dict_del(running_tasks, progress.id)
                          /\ frame' = [frame EXCEPT ![t].i = @ + 1]
                          /\ UNCHANGED pc
                     ELSE /\ frame' = [frame EXCEPT ![t].exc = Some("KeyError")]
                          /\ Goto(t, "post_release")
                          /\ running_tasks' = table_on_exception(running_tasks,
                                                                 frame[t].table0[1])
                ELSE /\ running_tasks' = dict_set(running_tasks, progress.id, as_dict(progress))
                     /\ frame' = [frame EXCEPT ![t].i = @ + 1]
                     /\ UNCHANGED pc
           ELSE /\ frame' = [frame EXCEPT ![t].i = @ + 1]
                /\ UNCHANGED << pc, running_tasks >>
    /\ UNCHANGED << now, rout, stream, counts, finalized, summary, summary_file, lock,
                    next_forward_at, forwarding_info, recorder_class, calls, hist >>
    /\ UNCHANGED << nodeVars, srvVars >>

\* after the loop: the forwarding gate, and the snapshot taken for the hand-off
PostGate(t) ==
    /\ pc[t] = "post_loop"
    /\ frame[t].i > Len(frame[t].progress_list)
    /\ LET now_time == now
           take == /\ forwarding_info # None
                   /\ (next_forward_at = None \/ now_time > next_forward_at[1])
       IN  /\ frame' = [frame EXCEPT ![t].fwd_summary =
                           IF take THEN Some(SummarySnapshot) ELSE None]
           /\ hist' = [hist EXCEPT !.snapshots = IF take THEN Append(@, now_time) ELSE @]
    /\ Goto(t, "post_release")
    /\ UNCHANGED << now, rout, stream, running_tasks, counts, finalized, summary,
                    summary_file, lock, next_forward_at, forwarding_info, recorder_class, calls >>
    /\ UNCHANGED << nodeVars, srvVars >>

\* finally: self._lock.release(); a pending exception reaches the caller
PostRelease(t) ==
    /\ pc[t] = "post_release"
    /\ lock' = release(t)
    /\ IF frame[t].exc # None
       THEN /\ Goto(t, "raised")
            /\ UNCHANGED frame
       ELSE IF frame[t].fwd_summary # None
            THEN /\ Goto(t, "post_forward")
                 /\ UNCHANGED frame
            ELSE Leave(t)
    /\ UNCHANGED << now, rout, stream, running_tasks, counts, finalized, summary,
                    summary_file, next_forward_at, forwarding_info, recorder_class, calls, hist >>
    /\ UNCHANGED << nodeVars, srvVars >>

\* self.forward_summary_update(fwd_summary), called outside any try: the
\* hook of the base class returns at once, the hook of a recorder that
\* forwards returns or raises (a network error)
PostForward(t) ==
    /\ pc[t] = "post_forward"
    /\ \E failed \in BOOLEAN :
          IF failed THEN Throw(t, "ConnectionError") ELSE Leave(t)
    /\ UNCHANGED << now, rout, stream, running_tasks, counts, finalized, summary,
                    summary_file, lock, next_forward_at, forwarding_info, recorder_class, calls, hist >>
    /\ UNCHANGED << nodeVars, srvVars >>

\* ---- clear_task_progress(task_ids) ----
CallClear(t, bound, idsets) ==
    /\ \E ids \in idsets :
          Invoke(t, bound, "clear_acquire", [IdleFrame EXCEPT !.op = "clear", !.task_ids = ids])
    /\ UNCHANGED << now, rout, stream, running_tasks, counts, finalized, summary,
                    summary_file, lock, next_forward_at, forwarding_info, recorder_class, hist >>
    /\ UNCHANGED << nodeVars, srvVars >>

ClearAcquire(t) ==
    /\ pc[t] = "clear_acquire"
    /\ LockAcquirable
    /\ lock' = Some(t)
    /\ frame' = [frame EXCEPT ![t].table0 = Some(running_tasks),
                              ![t].counts0 = Some(counts),
                              ![t].finalized0 = Some(finalized)]
    /\ Goto(t, "clear_body")
    /\ UNCHANGED << now, rout, stream, running_tasks, counts, finalized, summary,
                    summary_file, next_forward_at, forwarding_info, recorder_class, calls, hist >>
    /\ UNCHANGED << nodeVars, srvVars >>

\* A clear that empties the table.
clear_loopWholeTable(table, task_ids) == EmptyDict

\* for tid in task_ids: if tid in self._running_tasks: del self._running_tasks[tid]
clear_loop(table, task_ids) ==
    [k \in (DOMAIN table) \ ((DOMAIN table) \cap task_ids) |-> table[k]]

\* the loop over task_ids: each id that is in the table is deleted
ClearBody(t) ==
    /\ pc[t] = "clear_body"
    /\ running_tasks' = clear_loop(running_tasks, frame[t].task_ids)
    /\ Goto(t, "clear_release")
    /\ UNCHANGED << now, rout, stream, counts, finalized, summary, summary_file, lock,
                    next_forward_at, forwarding_info, recorder_class, frame, calls, hist >>
    /\ UNCHANGED << nodeVars, srvVars >>

ClearRelease(t) ==
    /\ pc[t] = "clear_release"
    /\ lock' = release(t)
    /\ Leave(t)
    /\ UNCHANGED << now, rout, stream, running_tasks, counts, finalized, summary,
                    summary_file, next_forward_at, forwarding_info, recorder_class, calls, hist >>
    /\ UNCHANGED << nodeVars, srvVars >>

\* ---- the summary property ----
CallSummary(t, bound) ==
    /\ Invoke(t, bound, "sum_acquire", [IdleFrame EXCEPT !.op = "summary"])
    /\ UNCHANGED << now, rout, stream, running_tasks, counts, finalized, summary,
                    summary_file, lock, next_forward_at, forwarding_info, recorder_class, hist >>
    /\ UNCHANGED << nodeVars, srvVars >>

SumAcquire(t) ==
    /\ pc[t] = "sum_acquire"
    /\ LockAcquirable
    /\ lock' = Some(t)
    /\ Goto(t, "sum_copy")
    /\ UNCHANGED << now, rout, stream, running_tasks, counts, finalized, summary,
                    summary_file, next_forward_at, forwarding_info, recorder_class, frame, calls, hist >>
    /\ UNCHANGED << nodeVars, srvVars >>

\* rtnval = copy.deepcopy(self._summary)
SumCopy(t) ==
    /\ pc[t] = "sum_copy"
    /\ frame' = [frame EXCEPT ![t].rtnval = Some(deepcopy(SelfSummary))]
    /\ Goto(t, "sum_release")
    /\ UNCHANGED << now, rout, stream, running_tasks, counts, finalized, summary,
                    summary_file, lock, next_forward_at, forwarding_info, recorder_class, calls, hist >>
    /\ UNCHANGED << nodeVars, srvVars >>

\* finally: self._lock.release(), and return rtnval: the caller has the dict
SumRelease(t) ==
    /\ pc[t] = "sum_release"
    /\ lock' = release(t)
    /\ hist' = [hist EXCEPT !.returned =
                   Append(@, [snapshot |-> frame[t].rtnval[1], edited |-> FALSE])]
    /\ Leave(t)
    /\ UNCHANGED << now, rout, stream, running_tasks, counts, finalized, summary,
                    summary_file, next_forward_at, forwarding_info, recorder_class, calls >>
    /\ UNCHANGED << nodeVars, srvVars >>

\* The caller of summary writes to a dict it was returned:
\* snapshot["result"] = "edited"; snapshot["running"]["caller"] = {}
EditSnapshot(t) ==
    /\ pc[t] = "idle"
    /\ \E i \in DOMAIN hist.returned :
          LET d == hist.returned[i].snapshot
          IN  /\ ~ hist.returned[i].edited
              /\ IF d.shares_running
                 THEN /\ running_tasks' = dict_set(running_tasks, "caller", EmptyDict)
                      /\ hist' = [hist EXCEPT !.returned[i] =
                                     [ snapshot |-> [d EXCEPT !.fields.result = "edited"],
                                       edited |-> TRUE ]]
                 ELSE /\ UNCHANGED running_tasks
                      /\ hist' = [hist EXCEPT !.returned[i] =
                                     [ snapshot |-> [d EXCEPT !.fields.result = "edited",
                                                              !.running = dict_set(@, "caller", EmptyDict)],
                                       edited |-> TRUE ]]
    /\ UNCHANGED << now, rout, stream, counts, finalized, summary, summary_file, lock,
                    next_forward_at, forwarding_info, recorder_class, pc, frame, calls >>
    /\ UNCHANGED << nodeVars, srvVars >>

\* ---- finalize() and __exit__ ----
CallFinalize(t, bound) ==
    /\ Invoke(t, bound, "fin_acquire", [IdleFrame EXCEPT !.op = "finalize"])
    /\ UNCHANGED << now, rout, stream, running_tasks, counts, finalized, summary,
                    summary_file, lock, next_forward_at, forwarding_info, recorder_class, hist >>
    /\ UNCHANGED << nodeVars, srvVars >>

\* __exit__(ex_type, ex_inst, ex_tb): the with-block ended, or raised ex_type
CallExit(t, bound) ==
    /\ \E ex_type \in { None, Some("Exception") } :
          Invoke(t, bound, "exit_check",
                 [IdleFrame EXCEPT !.op = "exit", !.ex_type = ex_type,
                                   !.runs0 = hist.fin_runs])
    /\ UNCHANGED << now, rout, stream, running_tasks, counts, finalized, summary,
                    summary_file, lock, next_forward_at, forwarding_info, recorder_class, hist >>
    /\ UNCHANGED << nodeVars, srvVars >>

\* An __exit__ that calls finalize() whatever the flag.
exit_finalizesAlways(flag) == TRUE

\* __exit__: if not self._finalized
exit_finalizes(flag) == ~ flag

\* __exit__: if not self._finalized: self.finalize()
ExitCheck(t) ==
    /\ pc[t] = "exit_check"
    /\ Goto(t, IF exit_finalizes(finalized) THEN "fin_acquire" ELSE "exit_return")
    /\ UNCHANGED frame
    /\ UNCHANGED << now, rout, stream, running_tasks, counts, finalized, summary,
                    summary_file, lock, next_forward_at, forwarding_info, recorder_class, calls, hist >>
    /\ UNCHANGED << nodeVars, srvVars >>

FinAcquire(t) ==
    /\ pc[t] = "fin_acquire"
    /\ LockAcquirable
    /\ lock' = Some(t)
    /\ Goto(t, "fin_body")
    /\ UNCHANGED << now, rout, stream, running_tasks, counts, finalized, summary,
                    summary_file, next_forward_at, forwarding_info, recorder_class, frame, calls, hist >>
    /\ UNCHANGED << nodeVars, srvVars >>

\* the finalized flag and the stop stamp
FinBody(t) ==
    /\ pc[t] = "fin_body"
    /\ finalized' = TRUE
    /\ summary' = [summary EXCEPT !.stop = Some(str(now))]
    /\ hist' = [hist EXCEPT !.fin_runs = @ + 1]
    /\ Goto(t, "fin_detail")
    /\ UNCHANGED << now, rout, stream, running_tasks, counts, summary_file, lock,
                    next_forward_at, forwarding_info, recorder_class, frame, calls >>
    /\ UNCHANGED << nodeVars, srvVars >>

\* self._summary["detail"] = {...}
FinDetail(t) ==
    /\ pc[t] = "fin_detail"
    /\ summary' = [summary EXCEPT !.detail = Some([ errors |-> error_count,
                                                    failed |-> failure_count,
                                                    skipped |-> skip_count,
                                                    passed |-> pass_count,
                                                    total |-> total_count ])]
    /\ Goto(t, "fin_result")
    /\ UNCHANGED << now, rout, stream, running_tasks, counts, finalized, summary_file,
                    lock, next_forward_at, forwarding_info, recorder_class, frame, calls, hist >>
    /\ UNCHANGED << nodeVars, srvVars >>

\* the verdict: self._summary["result"]
FinResult(t) ==
    /\ pc[t] = "fin_result"
    /\ summary' = [summary EXCEPT !.result = final_result(error_count, failure_count)]
    /\ Goto(t, "fin_close")
    /\ UNCHANGED << now, rout, stream, running_tasks, counts, finalized, summary_file,
                    lock, next_forward_at, forwarding_info, recorder_class, frame, calls, hist >>
    /\ UNCHANGED << nodeVars, srvVars >>

\* self._rout.close(): a recorder that was never entered has no stream
FinClose(t) ==
    /\ pc[t] = "fin_close"
    /\ IF rout = "None"
       THEN /\ frame' = [frame EXCEPT ![t].exc = Some("AttributeError")]
            /\ Goto(t, "fin_release")
            /\ UNCHANGED << rout, hist >>
       ELSE /\ rout' = "closed"
            /\ hist' = [hist EXCEPT !.closes = @ + 1]
            /\ Goto(t, "fin_update")
            /\ UNCHANGED frame
    /\ UNCHANGED << now, stream, running_tasks, counts, finalized, summary,
                    summary_file, lock, next_forward_at, forwarding_info, recorder_class, calls >>
    /\ UNCHANGED << nodeVars, srvVars >>

\* self.update_summary()
FinUpdate(t) ==
    /\ pc[t] = "fin_update"
    /\ summary_file' = Some(JsonDump(SummarySnapshot))
    /\ Goto(t, "fin_release")
    /\ UNCHANGED << now, rout, stream, running_tasks, counts, finalized, summary,
                    lock, next_forward_at, forwarding_info, recorder_class, frame, calls, hist >>
    /\ UNCHANGED << nodeVars, srvVars >>

\* finally: self._lock.release(), and the return of finalize()
FinRelease(t) ==
    /\ pc[t] = "fin_release"
    /\ lock' = release(t)
    /\ hist' = [hist EXCEPT !.first_final =
                   IF @ = None /\ frame[t].exc = None
                   THEN Some([summary |-> summary, file |-> summary_file])
                   ELSE @]
    /\ IF frame[t].exc # None
       THEN /\ Goto(t, "raised")
            /\ UNCHANGED frame
       ELSE IF frame[t].op = "exit"
            THEN /\ Goto(t, "exit_return")
                 /\ UNCHANGED frame
            ELSE Leave(t)
    /\ UNCHANGED << now, rout, stream, running_tasks, counts, finalized, summary,
                    summary_file, next_forward_at, forwarding_info, recorder_class, calls >>
    /\ UNCHANGED << nodeVars, srvVars >>

\* __exit__: the bare return, which hands None (nothing is suppressed) back
ExitReturn(t) ==
    /\ pc[t] = "exit_return"
    /\ Leave(t)
    /\ UNCHANGED << now, rout, stream, running_tasks, counts, finalized, summary,
                    summary_file, lock, next_forward_at, forwarding_info, recorder_class, calls, hist >>
    /\ UNCHANGED << nodeVars, srvVars >>

\* the exception of an operation reaches its caller
Propagate(t) ==
    /\ pc[t] = "raised"
    /\ Leave(t)
    /\ UNCHANGED << now, rout, stream, running_tasks, counts, finalized, summary,
                    summary_file, lock, next_forward_at, forwarding_info, recorder_class, calls, hist >>
    /\ UNCHANGED << nodeVars, srvVars >>

\* the wall clock advances; between the operations of the one thread, which
\* reads the clock at one place of an operation
SeqTick ==
    /\ pc["t1"] = "idle"
    /\ Tick
    /\ UNCHANGED << nodeVars, recVars, srvVars >>

\* the steps inside an operation of thread t
RecStep(t) ==
    \/ WriteSep(t) \/ WriteJson(t) \/ Flush(t)
    \/ RecAcquire(t) \/ RecLoadTotal(t) \/ RecStoreTotal(t)
    \/ RecLoadCat(t) \/ RecStoreCat(t) \/ RecRelease(t) \/ Catalog(t)
    \/ PostAcquire(t) \/ PostLoop(t) \/ PostGate(t) \/ PostRelease(t) \/ PostForward(t)
    \/ ClearAcquire(t) \/ ClearBody(t) \/ ClearRelease(t)
    \/ SumAcquire(t) \/ SumCopy(t) \/ SumRelease(t)
    \/ ExitCheck(t) \/ FinAcquire(t) \/ FinBody(t) \/ FinDetail(t) \/ FinResult(t)
    \/ FinClose(t) \/ FinUpdate(t) \/ FinRelease(t) \/ ExitReturn(t) \/ Propagate(t)

\* The inputs of the concurrent runs: tests counted by two different
\* counters and a node that is no test, and batches about one task.
ConcResults == { Result(TEST, FAILED), Result(TEST, UNSET), Result(TASK, PASSED) }
ConcBatches ==
    LET running == NewProgressInfo("X", "Running", 0, None)
        completed == NewProgressInfo("X", "Completed", 0, None)
    IN  { << running >>, << completed >>, << running, completed >>,
          << completed, running >> }

\* concurrent threads drive an entered recorder
RecNext ==
    \E t \in Threads :
       \/ CallRecord(t, MaxCalls, ConcResults)
       \/ CallPreview(t, MaxCalls, { Result(TEST, PASSED) })
       \/ CallPost(t, MaxCalls, ConcBatches)
       \/ CallClear(t, MaxCalls, {{"X"}})
       \/ CallSummary(t, MaxCalls)
       \/ CallFinalize(t, MaxCalls)
       \/ CallExit(t, MaxCalls)
       \/ RecStep(t)

\* one thread drives a recorder from its construction on
SeqNext ==
    \/ \E t \in {"t1"} :
          \/ Enter(t)
          \/ CallRecord(t, MaxSeqCalls, Results)
          \/ CallPreview(t, MaxSeqCalls, PreviewResults)
          \/ CallPost(t, MaxSeqCalls, Batches)
          \/ CallClear(t, MaxSeqCalls, (SUBSET TaskIds) \ {{}})
          \/ CallSummary(t, MaxSeqCalls)
          \/ CallFinalize(t, MaxSeqCalls)
          \/ CallExit(t, MaxSeqCalls)
          \/ RecStep(t)
          \/ EditSnapshot(t)
    \/ SeqTick

(***************************************************************************)
(* The concentrator server: ProgressConcentratorServer and its handler     *)
(* ProgressCallbackHandler.                                                *)
(***************************************************************************)
\* what an evaluation gives: a value, or the exception it raised
Ok(v) == [exc |-> None, value |-> Some(v)]
Raise(e) == [exc |-> Some(e), value |-> None]

\* the fields of the JSON object a postback carries
ProgressFields ==
    { "id", "category", "moniker", "ptype", "range_min", "range_max", "position",
      "status", "when", "data" }

\* the JSON object a worker posts for task id with a status
PostbackObject(id, status) ==
    [ id |-> id, category |-> "task", moniker |-> "m", ptype |-> "NumericRange",
      range_min |-> "0", range_max |-> "9", position |-> "1", status |-> status,
      when |-> isoformat(0), data |-> None ]

\* the same object without its "when" field
PostbackObjectNoWhen(id, status) ==
    [ k \in ProgressFields \ {"when"} |-> PostbackObject(id, status)[k] ]

\* The bodies of the postbacks: JSON text is given as the object it encodes.
Bodies ==
    { [json |-> FALSE, object |-> None] }
    \cup { [json |-> TRUE, object |-> Some(PostbackObject(id, st))] :
             id \in TaskIds, st \in {"Running", "Completed"} }
    \cup { [json |-> TRUE, object |-> Some(PostbackObjectNoWhen("X", "Running"))] }

\* The Content-Length header of a postback: absent, or its text; "n" stands
\* for the decimal length of the body.
ContentLengths == { None, Some(""), Some("0"), Some("abc"), Some("n") }

\* The postbacks: each body under a positive length, and one body under each
\* other Content-Length (the body is not read then).
Requests ==
    { [content_length |-> Some("n"), body |-> b] : b \in Bodies }
    \cup { [content_length |-> cl, body |-> [json |-> FALSE, object |-> None]] :
             cl \in ContentLengths \ {Some("n")} }

\* int(content_length) if content_length else 0
parse_length(content_length) ==
    IF content_length = "" THEN Ok(0)
    ELSE IF content_length = "0" THEN Ok(0)
    ELSE IF content_length = "n" THEN Ok(1)
    ELSE Raise("ValueError")

\* json.loads(content)
json_loads(body) ==
    IF body.json THEN Ok(body.object[1]) ELSE Raise("JSONDecodeError")

\* the positional parameters ProgressInfo.from_dict declares
from_dict_params == 1

\* ProgressInfo.from_dict(...) called on the class with `args`: a classmethod
\* is handed the class before them
from_dict(args) ==
    IF Len(args) + 1 # from_dict_params THEN Raise("TypeError")
    ELSE LET data == args[1]
         IN  IF ~ (ProgressFields \subseteq DOMAIN data) THEN Raise("KeyError")
             ELSE Ok([ id |-> data.id, category |-> data.category,
                       moniker |-> data.moniker, ptype |-> data.ptype,
                       range_min |-> data.range_min, range_max |-> data.range_max,
                       position |-> data.position, status |-> data.status,
                       when |-> data.when[2], data |-> data.data ])

\* post_task_progress(x) where x is one ProgressInfo: the loop over it raises
post_one_progress(table, progress) == Raise("TypeError")

\* ProgressConcentratorServer.update_task_progress(progress)
update_task_progress(table, progress) == post_one_progress(table, progress)

\* A do_POST whose try has no except clause.
do_POSTUncaught(request, table) ==
    IF request.content_length # None
    THEN LET length == parse_length(request.content_length[1])
         IN  IF length.exc # None
             THEN [status |-> None, table |-> table]
             ELSE IF length.value[1] # 0
                  THEN LET data == json_loads(request.body)
                           progress == IF data.exc # None THEN data
                                       ELSE from_dict(<< data.value[1] >>)
                           posted == IF progress.exc # None THEN progress
                                     ELSE update_task_progress(table, progress.value[1])
                       IN  IF posted.exc # None
                           THEN [status |-> None, table |-> table]
                           ELSE [status |-> Some(200), table |-> posted.value[1]]
                  ELSE [status |-> Some(200), table |-> table]
    ELSE [status |-> Some(200), table |-> table]

\* do_POST: the response it sends and the table it leaves; an exception
\* that leaves do_POST ends the connection with no response
do_POST(request, table) ==
    IF request.content_length # None
    THEN LET length == parse_length(request.content_length[1])
         IN  IF length.exc # None
             THEN [status |-> None, table |-> table]
             ELSE IF length.value[1] # 0
                  THEN LET data == json_loads(request.body)
                           progress == IF data.exc # None THEN data
                                       ELSE from_dict(<< data.value[1] >>)
                           posted == IF progress.exc # None THEN progress
                                     ELSE update_task_progress(table, progress.value[1])
                       IN  IF posted.exc # None
                           THEN [status |-> Some(500), table |-> table]
                           ELSE [status |-> Some(200), table |-> posted.value[1]]
                  ELSE [status |-> Some(200), table |-> table]
    ELSE [status |-> Some(200), table |-> table]

\* ProgressConcentratorServer.__init__ (bind_and_activate: the socket listens)
SrvInit ==
    /\ \E fwd \in { None, Some([forwarding_interval |-> ForwardInterval,
                                forwarding_headers |-> None]) } :
         srv = [ forwarding_info |-> fwd,
                 forward_thread |-> None,
                 forwarding_running |-> FALSE,
                 server_thread |-> None,
                 server_running |-> FALSE,
                 start_pc |-> "created",
                 fwd_gate |-> FALSE,
                 svr_gate |-> FALSE,
                 starts |-> 0,
                 fwd_pc |-> "none",
                 svr_pc |-> "none",
                 fwd_prev |-> << >>,
                 svr_prev |-> << >>,
                 interval |-> None,
                 headers |-> None,
                 forwards |-> 0,
                 sleeps |-> 0,
                 backlog |-> << >>,
                 sent |-> 0 ]
    /\ responses = << >>

\* A wait that returns at once.
gate_waitNoBlock(gate) == TRUE

\* threading.Event.wait(): it returns once the event is set
gate_wait(gate) == gate

\* the workers of the earlier start() calls, with the worker that the next
\* thread replaces as the one start() refers to
earlier(prev, worker_pc) == IF worker_pc = "none" THEN prev ELSE Append(prev, worker_pc)

\* start(), called on a new server or again after it has returned (nothing
\* in it tests for workers that exist): with forwarding configured a
\* forwarding worker is spawned first, with a gate and locals of its own
StartBegin ==
    /\ srv.start_pc \in {"created", "returned"}
    /\ srv.starts < MaxStarts
    /\ IF srv.forwarding_info # None
       THEN srv' = [srv EXCEPT !.starts = @ + 1,
                               !.fwd_gate = FALSE,
                               !.forward_thread = Some("prog-forwarder"),
                               !.fwd_prev = earlier(@, srv.fwd_pc),
                               !.fwd_pc = "entry",
                               !.interval = None,
                               !.headers = None,
                               !.start_pc = "fwd_wait"]
       ELSE srv' = [srv EXCEPT !.starts = @ + 1,
                               !.start_pc = "svr_spawn"]
    /\ UNCHANGED << now, nodeVars, recVars, responses, ctor >>

\* fwd_gate.wait()
StartFwdWait ==
    /\ srv.start_pc = "fwd_wait"
    /\ gate_wait(srv.fwd_gate)
    /\ srv' = [srv EXCEPT !.start_pc = "svr_spawn"]
    /\ UNCHANGED << now, nodeVars, recVars, responses, ctor >>

\* the accept-loop worker is spawned
StartSpawnServer ==
    /\ srv.start_pc = "svr_spawn"
    /\ srv' = [srv EXCEPT !.svr_gate = FALSE,
                          !.server_running = TRUE,
                          !.server_thread = Some("prog-concentrator"),
                          !.svr_prev = earlier(@, srv.svr_pc),
                          !.svr_pc = "entry",
                          !.start_pc = "svr_wait"]
    /\ UNCHANGED << now, nodeVars, recVars, responses, ctor >>

\* svr_gate.wait(), and the return of start()
StartSvrWait ==
    /\ srv.start_pc = "svr_wait"
    /\ gate_wait(srv.svr_gate)
    /\ srv' = [srv EXCEPT !.start_pc = "returned"]
    /\ UNCHANGED << now, nodeVars, recVars, responses, ctor >>

\* headers.update(forwarding_headers)
merge_headers(forwarding_headers) ==
    LET defaults == [k \in {"Content-Type"} |-> "application/json"]
    IN  IF forwarding_headers # None
        THEN [k \in DOMAIN defaults \cup DOMAIN forwarding_headers[1] |->
                 IF k \in DOMAIN forwarding_headers[1] THEN forwarding_headers[1][k]
                 ELSE defaults[k]]
        ELSE defaults

\* _forwarding_thread_entry: the worker takes the interval and the merged
\* headers from the forwarding info
FwdEntry ==
    /\ srv.fwd_pc = "entry"
    /\ srv' = [srv EXCEPT !.interval = Some(srv.forwarding_info[1].forwarding_interval),
                          !.headers = Some(merge_headers(srv.forwarding_info[1].forwarding_headers)),
                          !.fwd_pc = "gate"]
    /\ UNCHANGED << now, nodeVars, recVars, responses, ctor >>

\* _forwarding_thread_entry: start_gate.set()
FwdGate ==
    /\ srv.fwd_pc = "gate"
    /\ srv' = [srv EXCEPT !.fwd_gate = TRUE, !.fwd_pc = "loop"]
    /\ UNCHANGED << now, nodeVars, recVars, responses, ctor >>

\* while self._forwarding_running: one turn (the summary is read and posted,
\* then the interval is slept; a POST that raises skips the sleep, which is
\* inside the try), or the return of the worker
FwdLoop ==
    /\ srv.fwd_pc = "loop"
    /\ IF srv.forwarding_running
       THEN \E raised \in BOOLEAN :
               srv' = [srv EXCEPT !.forwards = @ + 1,
                                  !.sleeps = IF raised THEN @ ELSE @ + 1]
       ELSE srv' = [srv EXCEPT !.fwd_pc = "exited"]
    /\ UNCHANGED << now, nodeVars, recVars, responses, ctor >>

\* the loop test of the forwarding worker of an earlier start() call
FwdLoopEarlier ==
    /\ \E w \in DOMAIN srv.fwd_prev :
          /\ srv.fwd_prev[w] = "loop"
          /\ IF srv.forwarding_running
             THEN \E raised \in BOOLEAN :
                     srv' = [srv EXCEPT !.forwards = @ + 1,
                                        !.sleeps = IF raised THEN @ ELSE @ + 1]
             ELSE srv' = [srv EXCEPT !.fwd_prev[w] = "exited"]
    /\ UNCHANGED << now, nodeVars, recVars, responses, ctor >>

\* _service_thread_entry: self._server_running = True
SvcEntry ==
    /\ srv.svr_pc = "entry"
    /\ srv' = [srv EXCEPT !.server_running = TRUE, !.svr_pc = "gate"]
    /\ UNCHANGED << now, nodeVars, recVars, responses, ctor >>

\* _service_thread_entry: start_gate.set()
SvcGate ==
    /\ srv.svr_pc = "gate"
    /\ srv' = [srv EXCEPT !.svr_gate = TRUE, !.svr_pc = "serve"]
    /\ UNCHANGED << now, nodeVars, recVars, responses, ctor >>

\* _service_thread_entry: self.serve_forever() is entered
SvcServe ==
    /\ srv.svr_pc = "serve"
    /\ srv' = [srv EXCEPT !.svr_pc = "serving"]
    /\ UNCHANGED << now, nodeVars, recVars, responses, ctor >>

\* serve_forever() is entered by the accept-loop worker of an earlier
\* start() call
SvcServeEarlier ==
    /\ \E w \in DOMAIN srv.svr_prev :
          /\ srv.svr_prev[w] = "serve"
          /\ srv' = [srv EXCEPT !.svr_prev[w] = "serving"]
    /\ UNCHANGED << now, nodeVars, recVars, responses, ctor >>

\* some accept-loop worker is in serve_forever()
serving(server) ==
    \/ server.svr_pc = "serving"
    \/ \E w \in DOMAIN server.svr_prev : server.svr_prev[w] = "serving"

\* a worker posts: the listening socket queues the connection
SendPostback ==
    /\ srv.sent < MaxRequests
    /\ \E r \in Requests :
          srv' = [srv EXCEPT !.backlog = Append(@, r), !.sent = @ + 1]
    /\ UNCHANGED << now, nodeVars, recVars, responses, ctor >>

\* serve_forever accepts a connection and its handler runs do_POST
HandlePostback ==
    /\ serving(srv)
    /\ srv.backlog # << >>
    /\ LET request == Head(srv.backlog)
           done == do_POST(request, running_tasks)
       IN  /\ running_tasks' = done.table
           /\ responses' = Append(responses, [ request |-> request,
                                               status |-> done.status,
                                               before |-> running_tasks,
                                               after |-> done.table ])
    /\ srv' = [srv EXCEPT !.backlog = Tail(@)]
    /\ UNCHANGED << now, nodeVars, rout, stream, counts, finalized, summary,
                    summary_file, lock, next_forward_at, forwarding_info, recorder_class, pc, frame,
                    calls, hist, ctor >>

SrvNext ==
    \/ StartBegin
    \/ StartFwdWait
    \/ StartSpawnServer
    \/ StartSvrWait
    \/ FwdEntry
    \/ FwdLoopEarlier
    \/ SvcServeEarlier
    \/ FwdGate
    \/ FwdLoop
    \/ SvcEntry
    \/ SvcGate
    \/ SvcServe
    \/ SendPostback
    \/ HandlePostback

\* the server of the leaf and recorder runs, which do not touch it
IdleServer ==
    /\ srv = None
    /\ responses = << >>
    /\ ctor = None

(***************************************************************************)
(* The construction of a recorder: ResultRecorder.__init__.                *)
(***************************************************************************)
\* the fields the constructor reads of build_info, pipeline_info and job_info
BuildFields == { "release", "branch", "build", "flavor", "url" }
PipelineFields == { "id", "name", "instance" }
JobFields == { "id", "initiator", "label", "name", "owner", "type" }

\* the arguments given: each info object is None (the default) or an object
BuildInfos ==
    { None } \cup { Some([k \in BuildFields |-> IF k = "release" THEN r ELSE "b"]) :
                       r \in {"1.0", "2.0"} }
PipelineInfos ==
    { None } \cup { Some([k \in PipelineFields |-> IF k = "id" THEN i ELSE "p"]) :
                       i \in {"p1", "p2"} }
JobInfos ==
    { None } \cup { Some([k \in JobFields |-> IF k = "id" THEN i ELSE "j"]) :
                       i \in {"j1", "j2"} }
Apods == { None, Some("pod") }

\* An attribute read that gives an empty string for an object that is None.
attrDefault(obj, name) == IF obj = None THEN Ok("") ELSE Ok(obj[1][name])

\* obj.name: None has no such attribute
attr(obj, name) == IF obj = None THEN Raise("AttributeError") ELSE Ok(obj[1][name])

\* collections.OrderedDict(((name, obj.name), ...)) over the fields
info_dict(obj, fields) ==
    IF \E k \in fields : attr(obj, k).exc # None
    THEN Raise("AttributeError")
    ELSE Ok([k \in fields |-> attr(obj, k).value[1]])

\* ResultRecorder.__init__: the summary of the recorder it gives, or the
\* exception it raises
construct(args) ==
    LET build == info_dict(args.build_info, BuildFields)
        pipeline == info_dict(args.pipeline_info, PipelineFields)
        job == info_dict(args.job_info, JobFields)
    IN  IF build.exc # None THEN build
        ELSE IF pipeline.exc # None THEN pipeline
        ELSE IF job.exc # None THEN job
        ELSE Ok([ build |-> build.value[1],
                  pipeline |-> pipeline.value[1],
                  job |-> job.value[1],
                  stop |-> None,
                  result |-> "RUNNING",
                  apod |-> args.apod,
                  detail |-> None,
                  running |-> EmptyDict ])

CtorInit ==
    \E b \in BuildInfos, p \in PipelineInfos, j \in JobInfos, a \in Apods :
        ctor = [ args |-> [ build_info |-> b, pipeline_info |-> p, job_info |-> j,
                            apod |-> a ],
                 outcome |-> None ]

\* the constructor is called
Construct ==
    /\ ctor.outcome = None
    /\ ctor' = [ctor EXCEPT !.outcome = Some(construct(ctor.args))]
    /\ UNCHANGED << now, nodeVars, recVars, srv, responses >>

CtorNext == Construct

\* one leaf node and its owning context
SpecNodeInit ==
    /\ now = 0
    /\ NodeInit
    /\ RecInit
    /\ forwarding_info = None
    /\ IdleServer

SpecNode == SpecNodeInit /\ [][NodeNext]_vars

\* the leaf of the recorder runs, which do not touch it
IdleNode ==
    /\ node = NewNode("ResultNode", TASK, UNSET)
    /\ nodeOp = "init"
    /\ nodePre = node

\* concurrent threads and a recorder that has been entered (__enter__)
SpecInit ==
    /\ now = 0
    /\ IdleNode
    /\ RecConstructed(TRUE)
    /\ forwarding_info # None
    /\ IdleServer

Spec == SpecInit /\ [][RecNext]_vars

\* one thread and a recorder as constructed
SpecSeqInit ==
    /\ now = 0
    /\ IdleNode
    /\ RecInit
    /\ IdleServer

SpecSeq == SpecSeqInit /\ [][SeqNext]_vars

\* one server, its workers and the postbacks it is sent
SpecServerInit ==
    /\ now = 0
    /\ IdleNode
    /\ RecConstructed(TRUE)
    /\ forwarding_info = None
    /\ SrvInit
    /\ ctor = None

SpecServer == SpecServerInit /\ [][SrvNext]_vars

\* one call of the constructor
SpecCtorInit ==
    /\ now = 0
    /\ IdleNode
    /\ RecInit
    /\ forwarding_info = None
    /\ srv = None
    /\ responses = << >>
    /\ CtorInit

SpecCtor == SpecCtorInit /\ [][CtorNext]_vars

(***************************************************************************)
(* The claims.                                                             *)
(***************************************************************************)

\* C1: for every interleaving of concurrent record(node) calls on one
\* recorder, once all the calls have returned total_count equals the number
\* of calls (that returned) whose node type is Test: no increment is lost or
\* duplicated.
C1_TotalCountsTestRecords ==
    (\A t \in Threads : pc[t] = "idle") => total_count = hist.test_returned

\* two record() calls of tests that overlapped (their separators were written
\* back to back) have both returned and both are counted
C1_Witness ==
    /\ \A t \in Threads : pc[t] = "idle"
    /\ Len(stream) = 4
    /\ stream[1].kind = "sep" /\ stream[2].kind = "sep"
    /\ total_count = 2
    /\ hist.test_returned = 2

\* C2: in every reachable state in which the recorder mutex is not held,
\* pass_count + failure_count + error_count + skip_count + unknown_count
\* equals total_count.
C2_CountersSumToTotal ==
    lock = None =>
        pass_count + failure_count + error_count + skip_count + unknown_count
            = total_count

\* the mutex is free after two tests were recorded, one of them counted as
\* unknown
C2_Witness ==
    /\ lock = None
    /\ total_count = 2
    /\ unknown_count = 1
    /\ failure_count = 1

C4_ExplicitCodeKept ==
    (nodeOp = "finalize" /\ nodePre.result_code \in {SKIPPED, CANCELLED})
        => node.result_code = nodePre.result_code

\* the statuses that end a task
TerminalStatus == {"Completed", "Failed", "Errored"}

\* C5: after post_task_progress has processed a batch (the lock still held),
\* an id the batch holds a Completed status for is absent from the table, and
\* an id whose last entry in the batch has a non-terminal status is present
\* with exactly that entry's as_dict() payload.
C5_ProgressTableLaw ==
    \A t \in Threads :
        pc[t] = "post_release" =>
            LET batch == frame[t].progress_list
            IN  \A x \in TaskIds :
                   /\ (\E i \in DOMAIN batch :
                          batch[i].id = x /\ NameOf(batch[i].status) = "Completed")
                         => x \notin DOMAIN running_tasks
                   /\ \A i \in DOMAIN batch :
                         ( /\ batch[i].id = x
                           /\ NameOf(batch[i].status) \notin TerminalStatus
                           /\ \A j \in DOMAIN batch : j > i => batch[j].id # x )
                         => ( /\ x \in DOMAIN running_tasks
                              /\ running_tasks[x] = as_dict(batch[i]) )

\* C6: once a finalize() call has returned, a further call changes nothing:
\* the stop stamp, detail and result, the persisted summary file and the
\* closed record stream stay as the first call left them, and the stream has
\* been closed exactly once.
C6_FinalizeIdempotent ==
    hist.first_final # None =>
        /\ summary = hist.first_final[1].summary
        /\ summary_file = hist.first_final[1].file
        /\ rout = "closed"
        /\ hist.closes = 1

\* C7: when the body of finalize() has run, the summary's result is "FAILED"
\* if and only if error_count > 0 or failure_count > 0, otherwise "PASSED",
\* detail holds the errors, failed, skipped, passed and total counters, and
\* stop is set.
C7_FinalizeVerdict ==
    \A t \in Threads :
        pc[t] = "fin_release" =>
            /\ (summary.result = "FAILED") <=> (error_count > 0 \/ failure_count > 0)
            /\ (summary.result = "PASSED") <=> ~ (error_count > 0 \/ failure_count > 0)
            /\ summary.detail = Some([ errors |-> error_count,
                                       failed |-> failure_count,
                                       skipped |-> skip_count,
                                       passed |-> pass_count,
                                       total |-> total_count ])
            /\ summary.stop # None

\* finalize() has run on a recorder that counted an errored test and no
\* failed one
C7_Witness ==
    \E t \in Threads :
        /\ pc[t] = "fin_release"
        /\ frame[t].exc = None
        /\ error_count = 1
        /\ failure_count = 0
        /\ summary.result = "FAILED"

\* C8: with forwarding configured with interval T, no two summary snapshots
\* are taken for hand-off within a window of duration T, however many
\* post_task_progress calls arrive in it.
C8_RateGate ==
    forwarding_info # None =>
        \A i, j \in DOMAIN hist.snapshots :
            i < j => hist.snapshots[j] - hist.snapshots[i]
                        >= forwarding_info[1].forwarding_interval

\* C9: in every state in which start() has returned, the accept-loop worker
\* has entered its serve loop.
C9_StartReturnsServing ==
    srv.start_pc = "returned" => srv.svr_pc = "serving"

\* a postback with a positive Content-Length and a JSON body that carries
\* every ProgressInfo field with a status that is not Completed
WellFormed(request) ==
    /\ request.content_length = Some("n")
    /\ request.body.json
    /\ ProgressFields \subseteq DOMAIN request.body.object[1]
    /\ request.body.object[1].status # "Completed"

\* C10: a well-formed postback for an id that is not in the table is answered
\* with 200 and adds exactly one entry, for that id, to the ProgressTable.
C10_WellFormedPostbackAccepted ==
    \A i \in DOMAIN responses :
        LET r == responses[i]
            id == r.request.body.object[1].id
        IN  (WellFormed(r.request) /\ id \notin DOMAIN r.before)
               => /\ r.status = Some(200)
                  /\ DOMAIN r.after = DOMAIN r.before \cup {id}
                  /\ \A k \in DOMAIN r.before : r.after[k] = r.before[k]

\* a postback with a positive Content-Length whose body is no JSON text or
\* lacks a ProgressInfo field
Malformed(request) ==
    /\ request.content_length = Some("n")
    /\ \/ ~ request.body.json
       \/ ~ (ProgressFields \subseteq DOMAIN request.body.object[1])

\* C11: a malformed postback is answered with 500 and leaves the
\* ProgressTable, the counters and the summary unchanged; the listener goes
\* on: it is still serving after the response, and no postback sent is
\* dropped (each is answered or is waiting to be accepted).
C11_MalformedPostbackIsolated ==
    /\ \A i \in DOMAIN responses :
          Malformed(responses[i].request)
             => /\ responses[i].status = Some(500)
                /\ responses[i].after = responses[i].before
    /\ (\E i \in DOMAIN responses : Malformed(responses[i].request))
          => /\ serving(srv)
             /\ Len(responses) + Len(srv.backlog) = srv.sent
             /\ counts = << 0, 0, 0, 0, 0, 0 >>
             /\ summary = [ stop |-> None, result |-> "RUNNING", detail |-> None ]
             /\ ~ finalized

\* a postback whose body is no JSON text and one that lacks a field were
\* answered one after the other
C11_Witness ==
    /\ Len(responses) = 2
    /\ ~ responses[1].request.body.json
    /\ responses[1].status = Some(500)
    /\ responses[2].request.body.json
    /\ Malformed(responses[2].request)
    /\ responses[2].status = Some(500)
    /\ srv.backlog = << >>

\* C12: in every reachable content of the record stream, each record
\* separator is immediately followed by the JSON text written by the same
\* call: concurrent record() and preview() calls interleave no partial
\* records.
C12_RecordsNotInterleaved ==
    \A i \in DOMAIN stream :
        (stream[i].kind = "sep" /\ i < Len(stream))
            => /\ stream[i + 1].kind = "json"
               /\ stream[i + 1].by = stream[i].by

\* C13: a dict returned by the summary accessor shares nothing with the
\* recorder: a write of the caller to a returned dict changes neither the
\* recorder's summary nor its ProgressTable, and no step of a recorder
\* operation changes what a dict already returned holds.
C13_SnapshotsIsolated ==
    [][ /\ (\E i \in DOMAIN hist.returned :
               hist'.returned[i].edited # hist.returned[i].edited)
              => UNCHANGED << summary, running_tasks >>
        /\ \A i \in DOMAIN hist.returned :
               hist'.returned[i].edited = hist.returned[i].edited
                  => Contents(hist.returned[i].snapshot)'
                        = Contents(hist.returned[i].snapshot) ]_vars

\* the caller wrote to the dict it was returned and then posted a running
\* task: the recorder shows the task and not the caller's writes, the dict
\* shows the caller's writes and not the task
C13_Witness ==
    /\ Len(hist.returned) = 1
    /\ hist.returned[1].edited
    /\ Contents(hist.returned[1].snapshot).result = "edited"
    /\ "caller" \in DOMAIN Contents(hist.returned[1].snapshot).running
    /\ "X" \notin DOMAIN Contents(hist.returned[1].snapshot).running
    /\ summary.result = "RUNNING"
    /\ DOMAIN running_tasks = {"X"}
    /\ \A t \in Threads : pc[t] = "idle"

C15_ForwardOutsideLock ==
    \A t \in Threads : pc[t] = "post_forward" => lock # Some(t)

\* a thread is in forward_summary_update() while the other one holds the lock
C15_Witness ==
    \E t, u \in Threads :
        /\ t # u
        /\ pc[t] = "post_forward"
        /\ lock = Some(u)

\* C16: with forwarding configured, the forwarding worker started by start()
\* keeps looping for the life of the server: it never leaves its loop.
C16_ForwarderKeepsLooping ==
    srv.forwarding_info # None => srv.fwd_pc # "exited"

\* C17: between any two consecutive POST attempts of the forwarding worker,
\* successful or failed, there is exactly one interval sleep.
C17_OneSleepBetweenForwards ==
    srv.forwards >= 1 => srv.sleeps >= srv.forwards - 1

\* C18: with forwarding configured, in every state after start() has
\* returned the accept-loop worker is serving and the forwarding worker is
\* alive inside its forwarding loop.
C18_BothWorkersLive ==
    (srv.forwarding_info # None /\ srv.start_pc = "returned")
        => /\ srv.svr_pc = "serving"
           /\ srv.fwd_pc = "loop"

\* C19: with forwarding configured the forwarding worker is spawned first,
\* and the accept-loop worker is not spawned before the forwarding worker
\* has taken its configuration and set its gate; start() returns only after
\* the accept-loop worker has set its gate; without forwarding configured no
\* forwarding worker is spawned.
C19_GatedStartOrdering ==
    /\ (srv.forwarding_info # None /\ srv.start_pc \in {"svr_wait", "returned"})
          => /\ srv.forward_thread # None
             /\ srv.fwd_gate
    /\ srv.fwd_gate => (srv.interval # None /\ srv.headers # None)
    /\ srv.start_pc = "returned"
          => (srv.server_thread # None /\ srv.svr_gate)
    /\ srv.forwarding_info = None
          => (srv.forward_thread = None /\ srv.fwd_pc = "none" /\ ~ srv.fwd_gate)

\* start() has returned on a server with forwarding configured
C19_Witness ==
    /\ srv.forwarding_info # None
    /\ srv.start_pc = "returned"
    /\ srv.forward_thread # None
    /\ srv.server_thread # None
    /\ srv.headers = Some(merge_headers(None))

\* C20: a POST without a usable Content-Length (header missing, empty,
\* zero, or not a number) is answered with 200 and changes nothing in the
\* recorder.
C20_NoUsableLengthAccepted ==
    \A i \in DOMAIN responses :
        responses[i].request.content_length # Some("n")
            => /\ responses[i].status = Some(200)
               /\ responses[i].after = responses[i].before

\* C21: no entry with a terminal status (Completed, Failed, Errored) is left
\* in the ProgressTable: processing an entry with such a status removes the
\* id from the table.
C21_NoTerminalEntryLeft ==
    lock = None =>
        \A x \in DOMAIN running_tasks : running_tasks[x].status \notin TerminalStatus

\* C22: post_task_progress() never ends with the KeyError of a Completed
\* status for an id that is not in the table: such an entry is a plain
\* removal and the call returns without error.
C22_CompletedAbsentIsRemoval ==
    \A t \in Threads :
        ~ (pc[t] = "raised" /\ frame[t].op = "post" /\ frame[t].exc = Some("KeyError"))

\* the last thing thread t wrote to the stream
LastWrittenBy(t) ==
    LET own == { i \in DOMAIN stream : stream[i].by = t }
    IN  stream[CHOOSE i \in own : \A j \in own : j <= i]

ClaimedCategory(result_code) ==
    CASE result_code = PASSED -> "pass"
      [] result_code = ERRORED -> "error"
      [] result_code = FAILED -> "failure"
      [] result_code = SKIPPED -> "skip"
      [] result_code \in {UNSET, CANCELLED, UNKOWN} -> "unknown"

\* C24: at the end of the critical section of record() of a Test node,
\* total is 1 more than at its start, the counter of the node's result code
\* (Passed -> pass, Errored -> error, Failed -> failure, Skipped -> skip,
\* every other code -> unknown) is 1 more, and the four others are as they
\* were.
C24_RecordIncrements ==
    \A t \in Threads :
        ( /\ pc[t] = "rec_release"
          /\ frame[t].op = "record"
          /\ frame[t].result[1].result_type = TEST )
        => LET c0 == frame[t].counts0[1]
               cat == ClaimedCategory(frame[t].result[1].result_code)
               inc(name) == IF cat = name THEN 1 ELSE 0
           IN  /\ total_count = c0[6] + 1
               /\ error_count = c0[1] + inc("error")
               /\ failure_count = c0[2] + inc("failure")
               /\ pass_count = c0[3] + inc("pass")
               /\ skip_count = c0[4] + inc("skip")
               /\ unknown_count = c0[5] + inc("unknown")

\* a Cancelled test is being recorded after a Skipped one: it is counted as
\* unknown
C24_Witness ==
    \E t \in Threads :
        /\ pc[t] = "rec_release"
        /\ frame[t].result[1] = Result(TEST, CANCELLED)
        /\ skip_count = 1
        /\ unknown_count = 1
        /\ total_count = 2

\* C25: record() and preview() do not go on after a stream call on a stream
\* that is not open: the exception reaches the caller, and then the caller
\* does not hold the lock and the counters are those of the tests recorded
\* before.
C25_WriteFailurePropagates ==
    \A t \in Threads :
        frame[t].op \in {"record", "preview"}
        => /\ pc[t] \notin {"write_sep", "raised"} => rout = "open"
           /\ pc[t] = "raised"
                 => /\ lock # Some(t)
                    /\ total_count = hist.test_returned
                    /\ pass_count + failure_count + error_count + skip_count
                          + unknown_count = total_count

\* record() of a test called after finalize() has raised; the one test
\* recorded before is the one counted
C25_Witness ==
    \E t \in Threads :
        /\ pc[t] = "raised"
        /\ frame[t].op = "record"
        /\ frame[t].result[1].result_type = TEST
        /\ frame[t].exc = Some("ValueError")
        /\ finalized
        /\ rout = "closed"
        /\ lock = None

C27_ExitFinalizesOnce ==
    \A t \in Threads :
        pc[t] = "exit_return"
        => /\ finalized
           /\ hist.fin_runs = (IF frame[t].runs0 = 0 THEN 1 ELSE frame[t].runs0)
           /\ frame[t].rtnval = None

\* __exit__ of a with-block that raised has finalized the recorder
C27_Witness ==
    \E t \in Threads :
        /\ pc[t] = "exit_return"
        /\ frame[t].ex_type # None
        /\ frame[t].runs0 = 0
        /\ hist.fin_runs = 1
        /\ rout = "closed"
        /\ summary.result = "PASSED"

\* C28: an exception raised by forward_summary_update() does not reach the
\* caller of post_task_progress.
C28_ForwardFailureCaught ==
    \A t \in Threads :
        ~ ( /\ pc[t] = "raised"
            /\ frame[t].op = "post"
            /\ frame[t].exc = Some("ConnectionError") )

LiveWorkers(worker_pc, prev) ==
    (IF worker_pc \in {"none", "exited"} THEN 0 ELSE 1)
        + Cardinality({ w \in DOMAIN prev : prev[w] # "exited" })

C31_ClearRemovesGivenIds ==
    \A t \in Threads :
        pc[t] = "clear_release" =>
            LET table0 == frame[t].table0[1]
            IN  /\ DOMAIN running_tasks = (DOMAIN table0) \ frame[t].task_ids
                /\ \A k \in DOMAIN running_tasks : running_tasks[k] = table0[k]
                /\ frame[t].exc = None
                /\ counts = frame[t].counts0[1]
                /\ finalized = frame[t].finalized0[1]

\* a clear of two ids, one in the table and one not: the one entry is gone
C31_Witness ==
    \E t \in Threads :
        /\ pc[t] = "clear_release"
        /\ frame[t].task_ids = {"X", "Y"}
        /\ DOMAIN frame[t].table0[1] = {"Y"}
        /\ running_tasks = EmptyDict

\* C32: a leaf is immutable after finalize(): an operation on a leaf that
\* finalize() has stamped (its stop is set) leaves the result code, the
\* stop, the errors, the failures and the warnings as they were.
C32_LeafImmutableAfterFinalize ==
    nodePre.stop # None =>
        /\ node.result_code = nodePre.result_code
        /\ node.stop = nodePre.stop
        /\ node.errors = nodePre.errors
        /\ node.failures = nodePre.failures
        /\ node.warnings = nodePre.warnings

(***************************************************************************)
(* The serialisation of a leaf: ResultNode.as_dict and TestResult.as_dict. *)
(***************************************************************************)
\* format_datetime_with_fractional(t)
format_datetime_with_fractional(t) == << "fmt", t >>

\* dataclasses.asdict(trace_detail)
dataclass_as_dict(trace_detail) == << "asdict", trace_detail >>

\* [dataclass_as_dict(e) for e in items]
as_dict_list(items) == [i \in DOMAIN items |-> dataclass_as_dict(items[i])]

\* An as_dict that builds the detail block whatever the flag.
detail_includedAlways(is_preview) == TRUE

\* as_dict: if not is_preview
detail_included(is_preview) == ~ is_preview

\* the head of the dict: the keys before "detail"
rninfo_head(n) ==
    LET start_datetime == format_datetime_with_fractional(n.start)
        stop_datetime == IF n.stop # None
                         THEN Some(format_datetime_with_fractional(n.stop[1]))
                         ELSE Some("")
        common == [ name |-> "name", instance |-> "inst", parent |-> "parent",
                    rtype |-> << "name", n.result_type >>,
                    result |-> << "name", n.result_code >>,
                    start |-> start_datetime, stop |-> stop_datetime ]
    IN  IF n.kind = "TestResult"
        THEN dict_set(dict_set(common, "monikers", "monikers"), "pivots", "pivots")
        ELSE common

\* the detail block: errors, failures, warnings, for a TestResult the reason
\* and the bug that are set, and the documentation that is set
rninfo_detail(n) ==
    LET detail_items == [ errors |-> as_dict_list(n.errors),
                          failures |-> as_dict_list(n.failures),
                          warnings |-> n.warnings ]
        with_reason == IF n.kind = "TestResult" /\ n.reason # None
                       THEN dict_set(detail_items, "reason", n.reason[1])
                       ELSE detail_items
        with_bug == IF n.kind = "TestResult" /\ n.bug # None
                    THEN dict_set(with_reason, "bug", n.bug[1])
                    ELSE with_reason
    IN  IF n.docstr # None
        THEN dict_set(with_bug, "documentation", n.docstr[1])
        ELSE with_bug

\* ResultNode.as_dict(is_preview) and TestResult.as_dict(is_preview)
node_as_dict(n, is_preview) ==
    IF detail_included(is_preview)
    THEN dict_set(rninfo_head(n), "detail", rninfo_detail(n))
    ELSE rninfo_head(n)

\* C33: for a ResultNode and for a TestResult, whatever has been added to
\* it, as_dict(preview) is as_dict(not preview) without its "detail" key,
\* and "detail" is a key of the one and not of the other.
C33_PreviewOmitsOnlyDetail ==
    node.kind \in {"ResultNode", "TestResult"} =>
        LET preview == node_as_dict(node, TRUE)
            full == node_as_dict(node, FALSE)
        IN  /\ "detail" \notin DOMAIN preview
            /\ "detail" \in DOMAIN full
            /\ preview = dict_del(full, "detail")

\* a finalized TestResult with an error, a skip reason and a documentation
\* string: its detail block holds all of them
C33_Witness ==
    /\ node.kind = "TestResult"
    /\ node.stop # None
    /\ Len(node.errors) > 0
    /\ DOMAIN node_as_dict(node, FALSE).detail
          = {"errors", "failures", "warnings", "reason", "bug", "documentation"}
    /\ "detail" \notin DOMAIN node_as_dict(node, TRUE)

\* where a thread stands at self._lock.acquire()
AtAcquire == { "rec_acquire", "post_acquire", "clear_acquire", "sum_acquire",
               "fin_acquire" }

\* where a thread stands between an acquire and the release of its finally
InsideLock == { "rec_load_total", "rec_store_total", "rec_load_cat", "rec_store_cat",
                "rec_release", "post_loop", "post_release", "clear_body",
                "clear_release", "sum_copy", "sum_release", "fin_body", "fin_detail",
                "fin_result", "fin_close", "fin_update", "fin_release" }

\* C34: the mutex is held only by a thread that is between the acquire and
\* the release of one operation, so it is free whenever no operation is in
\* progress, after a return and after an exception alike; its holder can
\* always take its next step, and no thread waits for a mutex that it
\* holds itself: a thread waiting at an acquire waits only for a holder
\* that will release.
C34_MutexFreeOutsideOperations ==
    /\ \A t \in Threads : (lock = Some(t)) <=> (pc[t] \in InsideLock)
    /\ (\A t \in Threads : pc[t] = "idle") => lock = None
    /\ \A t \in Threads : lock = Some(t) => ENABLED RecStep(t)
    /\ \A t \in Threads :
          pc[t] \in AtAcquire =>
              \/ lock = None
              \/ \E u \in Threads \ {t} : lock = Some(u) /\ ENABLED RecStep(u)

\* the exception of a post_task_progress() is on its way to the caller, the
\* mutex is free, and the other thread stands at an acquire
C34_Witness ==
    \E t, u \in Threads :
        /\ t # u
        /\ pc[t] = "raised"
        /\ frame[t].op = "post"
        /\ frame[t].exc = Some("KeyError")
        /\ lock = None
        /\ pc[u] \in AtAcquire

\* C35: after ResultNode.finalize() (of a ResultNode or a TestResult),
\* whatever was added or marked before and whatever code the leaf was
\* constructed with, the result code is Passed, Errored, Failed or Unknown,
\* never Unset, and stop is set.
C35_FinalizedCodeIsSettled ==
    (nodeOp = "finalize" /\ node.kind # "TaskingResult")
        => /\ node.result_code \in {PASSED, ERRORED, FAILED, UNKOWN}
           /\ node.result_code # UNSET
           /\ node.stop # None

\* a leaf that held the code Cancelled and nothing else was finalized
C35_Witness ==
    /\ nodeOp = "finalize"
    /\ node.kind = "ResultNode"
    /\ nodePre.result_code = CANCELLED
    /\ nodePre.stop = None
    /\ Len(nodePre.errors) = 0
    /\ Len(nodePre.failures) = 0
    /\ node.result_code = UNKOWN

\* C36: failures and errors dominate an explicit mark: a leaf finalized
\* with at least one failure is Failed, one finalized with no failure and
\* at least one error is Errored, whatever code it held before.
C36_FailuresAndErrorsDominate ==
    nodeOp = "finalize"
        => /\ Len(nodePre.failures) >= 1 => node.result_code = FAILED
           /\ (Len(nodePre.failures) = 0 /\ Len(nodePre.errors) >= 1)
                 => node.result_code = ERRORED

\* a test marked as skipped and then given an error was finalized
C36_Witness ==
    /\ nodeOp = "finalize"
    /\ node.kind = "TestResult"
    /\ nodePre.result_code = SKIPPED
    /\ nodePre.reason # None
    /\ Len(nodePre.failures) = 0
    /\ Len(nodePre.errors) >= 1
    /\ node.result_code = ERRORED

C38_UnknownOutsideVerdict ==
    \A t \in Threads :
        pc[t] = "fin_release" =>
            /\ summary.detail # None
            /\ DOMAIN summary.detail[1] = {"errors", "failed", "skipped", "passed", "total"}
            /\ summary.detail[1].errors + summary.detail[1].failed
                  + summary.detail[1].skipped + summary.detail[1].passed
                  = summary.detail[1].total - unknown_count
            /\ total_count = unknown_count => summary.result = "PASSED"

\* finalize() has run on a recorder all of whose recorded tests (there is
\* one at least) were counted as unknown
C38_Witness ==
    \E t \in Threads :
        /\ pc[t] = "fin_release"
        /\ frame[t].exc = None
        /\ unknown_count >= 1
        /\ total_count = unknown_count
        /\ summary.detail[1].total = unknown_count
        /\ summary.result = "PASSED"

\* the table after the entries have been applied one after the other, none
\* of them failing
RECURSIVE Applied(_, _)
Applied(table, entries) ==
    IF entries = << >> THEN table
    ELSE Applied(IF NameOf(Head(entries).status) = "Completed"
                 THEN dict_del(table, Head(entries).id)
                 ELSE dict_set(table, Head(entries).id, as_dict(Head(entries))),
                 Tail(entries))

\* C39: post_task_progress() is not atomic when it fails: if entry k of the
\* batch raises, the table is the one the call found with the entries
\* before k applied and none of the entries from k on, no snapshot has been
\* taken for the hand-off, the exception reaches the caller and the mutex
\* is released.
C39_PostNotAtomicOnFailure ==
    \A t \in Threads :
        (frame[t].op = "post" /\ frame[t].exc = Some("KeyError"))
            => /\ pc[t] \in {"post_release", "raised"}
               /\ running_tasks = Applied(frame[t].table0[1],
                                          SubSeq(frame[t].progress_list, 1, frame[t].i - 1))
               /\ frame[t].fwd_summary = None
               /\ pc[t] = "raised" => lock = None

\* the second entry of a batch raised: the entry the first one wrote is in
\* the table, the exception is on its way to the caller and the mutex is
\* free
C39_Witness ==
    \E t \in Threads :
        /\ pc[t] = "raised"
        /\ frame[t].op = "post"
        /\ frame[t].exc = Some("KeyError")
        /\ frame[t].i = 2
        /\ frame[t].table0[1] = EmptyDict
        /\ DOMAIN running_tasks = {"X"}
        /\ lock = None

\* C40: a JsonResultRecorder never has forwarding configured: whatever
\* post_task_progress() calls it is given, its forwarding_info is None, no
\* summary snapshot is taken for the hand-off and forward_summary_update()
\* is not invoked.
C40_JsonRecorderNeverForwards ==
    recorder_class = "JsonResultRecorder" =>
        /\ forwarding_info = None
        /\ hist.snapshots = << >>
        /\ \A t \in Threads :
              /\ pc[t] # "post_forward"
              /\ frame[t].fwd_summary = None

\* a post_task_progress() of a JsonResultRecorder has written to the table,
\* has passed the forwarding gate and is about to release the mutex
C40_Witness ==
    \E t \in Threads :
        /\ recorder_class = "JsonResultRecorder"
        /\ pc[t] = "post_release"
        /\ frame[t].exc = None
        /\ frame[t].i > Len(frame[t].progress_list)
        /\ running_tasks # EmptyDict
        /\ frame[t].fwd_summary = None

====
